---- MODULE Spec2Model ----
(***************************************************************************)
(* drawille-rs: the Canvas (src/src/lib.rs) and its Pixel cells            *)
(* (src/src/pixel.rs).  The pixel map is a function from the cell keys     *)
(* present in the FnvHashMap to Pixel records; every Canvas method is a    *)
(* pure operator on that map and an action that applies it.                *)
(*                                                                         *)
(* A rendered row (a Rust String) is a sequence of tokens:                 *)
(*   [t |-> "open", v |-> <<r, g, b>>]  the escape  ESC[38;2;r;g;bm        *)
(*   [t |-> "chr",  v |-> <<cp>>]       one character, by code point       *)
(*   [t |-> "end",  v |-> <<>>]         the reset   ESC[0m                 *)
(* Characters are code points.  Option<T> is [some |-> BOOLEAN, v |-> T].  *)
(***************************************************************************)
EXTENDS Integers, Sequences, FiniteSets, TLC

\* ---------------------------------------------------------------- bounds
\* Fine-grained window of the point operations of Spec: x in 0..MaxX,
\* y in 0..MaxY (cell (0,0) with all eight sub-pixels, and its neighbours).
MaxX == 2
MaxY == 4
\* Calls that go to the pixel map, per behaviour of Spec, SpecColor, SpecDoc
\* and SpecWide.
MaxOps == 2
\* SpecColor: x in 0..MaxColorX, y = 0.
MaxColorX == 2
\* Window of the endpoints of SpecLine: both coordinates in 0..MaxLine.
MaxLine == 3
\* SpecText: strings of at most MaxTextLen characters, max_width in
\* 0..MaxTextWidth, x in 0..MaxTextX.
MaxTextLen == 4
MaxTextWidth == 7
MaxTextX == 1

\* `as u16` keeps the value modulo 2^16.
U16 == 65536

Max(a, b) == IF a >= b THEN a ELSE b
Min(a, b) == IF a <= b THEN a ELSE b

\* ------------------------------------------------------------ u8 bit ops
RECURSIVE BitOr(_, _)
BitOr(a, b) ==
    IF a = 0 THEN b
    ELSE IF b = 0 THEN a
    ELSE (IF a % 2 = 1 \/ b % 2 = 1 THEN 1 ELSE 0) + 2 * BitOr(a \div 2, b \div 2)

RECURSIVE BitAnd(_, _)
BitAnd(a, b) ==
    IF a = 0 \/ b = 0 THEN 0
    ELSE (IF a % 2 = 1 /\ b % 2 = 1 THEN 1 ELSE 0) + 2 * BitAnd(a \div 2, b \div 2)

RECURSIVE BitXor(_, _)
BitXor(a, b) ==
    IF a = 0 THEN b
    ELSE IF b = 0 THEN a
    ELSE (IF a % 2 # b % 2 THEN 1 ELSE 0) + 2 * BitXor(a \div 2, b \div 2)

\* !a on u8
BitNot(a) == 255 - a

\* ------------------------------------------------------------- pixel.rs
Empty == [tag |-> "Empty", d |-> 0]
Line(d) == [tag |-> "Line", d |-> d]
Char(c) == [tag |-> "Char", d |-> c]

NoColor == [some |-> FALSE, v |-> <<0, 0, 0>>]
SomeColor(c) == [some |-> TRUE, v |-> c]
NoColors == [some |-> FALSE, v |-> <<>>]
SomeColors(cs) == [some |-> TRUE, v |-> cs]
NoChar == [some |-> FALSE, v |-> 0]
SomeChar(c) == [some |-> TRUE, v |-> c]

DefaultPixel == [content |-> Empty, colors |-> NoColors]

from_hex(hex) ==
    <<(hex \div 65536) % 256, (hex \div 256) % 256, hex % 256>>

RECURSIVE SumChannel(_, _, _)
SumChannel(cs, ch, i) ==
    IF i > Len(cs) THEN 0 ELSE cs[i][ch] + SumChannel(cs, ch, i + 1)

\* Mutant: the mean rounds to nearest.
Pixel_color_rounded(p) ==
    IF ~p.colors.some \/ Len(p.colors.v) = 0
    THEN NoColor
    ELSE LET len == Len(p.colors.v)
         IN SomeColor(<<((SumChannel(p.colors.v, 1, 1) + len \div 2) \div len) % 256,
                        ((SumChannel(p.colors.v, 2, 1) + len \div 2) \div len) % 256,
                        ((SumChannel(p.colors.v, 3, 1) + len \div 2) \div len) % 256>>)

Pixel_color(p) ==
    IF ~p.colors.some \/ Len(p.colors.v) = 0
    THEN NoColor
    ELSE LET len == Len(p.colors.v)
         IN SomeColor(<<(SumChannel(p.colors.v, 1, 1) \div len) % 256,
                        (SumChannel(p.colors.v, 2, 1) \div len) % 256,
                        (SumChannel(p.colors.v, 3, 1) \div len) % 256>>)

Pixel_set_color(p, color) ==
    [p EXCEPT !.colors = IF color.some THEN SomeColors(<<color.v>>) ELSE NoColors]

Pixel_add_color(p, color) ==
    IF color.some
    THEN [p EXCEPT !.colors =
            SomeColors(Append(IF p.colors.some THEN p.colors.v ELSE <<>>, color.v))]
    ELSE p

Pixel_set_char(p, c) == [p EXCEPT !.content = Char(c)]

\* Mutant: the colours are dropped, the character stays.
Pixel_unset_char_keeps(p) ==
    IF p.content.tag = "Char"
    THEN [p EXCEPT !.colors = NoColors]
    ELSE p

Pixel_unset_char(p) ==
    IF p.content.tag = "Char"
    THEN [content |-> Empty, colors |-> NoColors]
    ELSE p

\* Mutant: the new dot replaces the old ones.
Pixel_set_line_overwrites(p, new) == [p EXCEPT !.content = Line(new)]

Pixel_set_line(p, new) ==
    LET old == IF p.content.tag = "Line" THEN p.content.d ELSE 0
    IN [p EXCEPT !.content = Line(BitOr(old, new))]

Pixel_unset_line(p, new) ==
    IF p.content.tag = "Line"
    THEN [p EXCEPT !.content = Line(BitAnd(p.content.d, BitNot(new)))]
    ELSE p

\* Mutant: | for ^.
Pixel_toggle_line_or(p, new) ==
    IF p.content.tag = "Line"
    THEN [p EXCEPT !.content = Line(BitOr(p.content.d, new))]
    ELSE p

Pixel_toggle_line(p, new) ==
    IF p.content.tag = "Line"
    THEN [p EXCEPT !.content = Line(BitXor(p.content.d, new))]
    ELSE p

Pixel_get_line(p, dot) ==
    IF p.content.tag = "Line" THEN BitAnd(p.content.d, dot) > 0 ELSE FALSE

colorize_char(color, c, append_end) ==
    (IF color.some THEN <<[t |-> "open", v |-> color.v]>> ELSE <<>>)
    \o (IF c.some THEN <<[t |-> "chr", v |-> <<c.v>>]>> ELSE <<>>)
    \o (IF append_end THEN <<[t |-> "end", v |-> <<>>]>> ELSE <<>>)

\* Mutant: no reset before a cell whose colour differs.
Pixel_get_char_no_end(p, prev_color) ==
    LET c == CASE p.content.tag = "Empty" -> 32
               [] p.content.tag = "Char" -> p.content.d
               [] p.content.tag = "Line" -> 10240 + p.content.d
        original_color == Pixel_color(p)
        color == IF prev_color = original_color THEN NoColor ELSE original_color
    IN <<colorize_char(color, SomeChar(c), FALSE), original_color>>

\* Returns <<s, original_color>>.
Pixel_get_char(p, prev_color) ==
    LET c == CASE p.content.tag = "Empty" -> 32
               [] p.content.tag = "Char" -> p.content.d
               [] p.content.tag = "Line" -> 10240 + p.content.d
        original_color == Pixel_color(p)
        same == prev_color = original_color
        color == IF same THEN NoColor ELSE original_color
        need_end == IF same THEN FALSE ELSE prev_color.some
    IN <<(IF need_end THEN colorize_char(NoColor, NoChar, TRUE) ELSE <<>>)
            \o colorize_char(color, SomeChar(c), FALSE),
         original_color>>

\* --------------------------------------------------------------- lib.rs
PIXEL_MAP == <<<<1, 8>>, <<2, 16>>, <<4, 32>>, <<64, 128>>>>

\* PIXEL_MAP[y as usize % 4][x as usize % 2]
Dot(x, y) == PIXEL_MAP[(y % 4) + 1][(x % 2) + 1]

\* ((x / 2) as u16, (y / 4) as u16)
Key(x, y) == <<(x \div 2) % U16, (y \div 4) % U16>>

EmptyMap == [k \in {} |-> DefaultPixel]

\* pixels.entry(key).or_default(), then f on the entry
Upsert(px, key, p) == [k \in (DOMAIN px) \cup {key} |-> IF k = key THEN p ELSE px[k]]
OrDefault(px, key) == IF key \in DOMAIN px THEN px[key] ELSE DefaultPixel

Canvas_set(px, col, x, y) ==
    LET key == Key(x, y)
    IN Upsert(px, key,
              Pixel_add_color(Pixel_set_line(OrDefault(px, key), Dot(x, y)), col))

Canvas_set_char(px, col, x, y, c) ==
    LET key == Key(x, y)
    IN Upsert(px, key,
              Pixel_set_color(Pixel_set_char(OrDefault(px, key), c), col))

\* pixels.entry(key).and_modify(f): nothing happens without an entry
Canvas_unset_char(px, x, y) ==
    LET key == Key(x, y)
    IN IF key \in DOMAIN px THEN [px EXCEPT ![key] = Pixel_unset_char(px[key])] ELSE px

Canvas_unset(px, x, y) ==
    LET key == Key(x, y)
    IN IF key \in DOMAIN px
       THEN [px EXCEPT ![key] = Pixel_unset_line(px[key], Dot(x, y))]
       ELSE px

\* Mutant: or_default() for and_modify().
Canvas_toggle_or_default(px, x, y) ==
    LET key == Key(x, y)
    IN Upsert(px, key, Pixel_toggle_line(OrDefault(px, key), Dot(x, y)))

Canvas_toggle(px, x, y) ==
    LET key == Key(x, y)
    IN IF key \in DOMAIN px
       THEN [px EXCEPT ![key] = Pixel_toggle_line(px[key], Dot(x, y))]
       ELSE px

Canvas_get(px, x, y) ==
    LET key == Key(x, y)
    IN IF key \in DOMAIN px THEN Pixel_get_line(px[key], Dot(x, y)) ELSE FALSE

\* for (i, c) in text.chars().enumerate(): i is the 0-based index of s[i + 1]
RECURSIVE TextFrom(_, _, _, _, _, _, _)
TextFrom(px, col, x, y, max_width, s, i) ==
    IF i >= Len(s) THEN px
    ELSE LET w == i * 2
         IN IF w > max_width THEN px
            ELSE TextFrom(Canvas_set_char(px, col, x + w, y, s[i + 1]),
                          col, x, y, max_width, s, i + 1)

\* Mutant: the loop stops at w >= max_width.
RECURSIVE TextFromStrict(_, _, _, _, _, _, _)
TextFromStrict(px, col, x, y, max_width, s, i) ==
    IF i >= Len(s) THEN px
    ELSE LET w == i * 2
         IN IF w >= max_width THEN px
            ELSE TextFromStrict(Canvas_set_char(px, col, x + w, y, s[i + 1]),
                                col, x, y, max_width, s, i + 1)

Canvas_text_strict(px, col, x, y, max_width, s) ==
    TextFromStrict(px, col, x, y, max_width, s, 0)

Canvas_text(px, col, x, y, max_width, s) == TextFrom(px, col, x, y, max_width, s, 0)

\* Mutant: i = 0..r, the end point left out.
LinePoints_exclusive(x1, y1, x2, y2) ==
    LET xdiff == Max(x1, x2) - Min(x1, x2)
        ydiff == Max(y1, y2) - Min(y1, y2)
        xdir == IF x1 <= x2 THEN 1 ELSE -1
        ydir == IF y1 <= y2 THEN 1 ELSE -1
        r == Max(xdiff, ydiff)
    IN [j \in 1..r |->
          LET i == j - 1
              y == y1 + (IF ydiff # 0 THEN ((i * ydiff) \div r) * ydir ELSE 0)
              x == x1 + (IF xdiff # 0 THEN ((i * xdiff) \div r) * xdir ELSE 0)
          IN <<x, y>>]

\* The points line() passes to set, in order: i = 0..=r.  The products stay
\* far below 2^32 and the coordinates below 2^31 for the endpoints drawn here.
LinePoints(x1, y1, x2, y2) ==
    LET xdiff == Max(x1, x2) - Min(x1, x2)
        ydiff == Max(y1, y2) - Min(y1, y2)
        xdir == IF x1 <= x2 THEN 1 ELSE -1
        ydir == IF y1 <= y2 THEN 1 ELSE -1
        r == Max(xdiff, ydiff)
    IN [j \in 1..(r + 1) |->
          LET i == j - 1
              y == y1 + (IF ydiff # 0 THEN ((i * ydiff) \div r) * ydir ELSE 0)
              x == x1 + (IF xdiff # 0 THEN ((i * xdiff) \div r) * xdir ELSE 0)
          IN <<x, y>>]

RECURSIVE SetAll(_, _, _, _)
SetAll(px, col, pts, j) ==
    IF j > Len(pts) THEN px
    ELSE SetAll(Canvas_set(px, col, pts[j][1], pts[j][2]), col, pts, j + 1)

Canvas_line(px, col, x1, y1, x2, y2) == SetAll(px, col, LinePoints(x1, y1, x2, y2), 1)

SetMax(S) == CHOOSE m \in S : \A n \in S : n <= m

\* One row of rows(): the cells x..=maxrow of row y, prev_color threaded through.
RECURSIVE RowFrom(_, _, _, _, _)
RowFrom(px, y, x, maxrow, prev_color) ==
    IF x > maxrow
    THEN IF prev_color.some THEN colorize_char(NoColor, NoChar, TRUE) ELSE <<>>
    ELSE LET cell == OrDefault(px, <<x, y>>)
             sc == Pixel_get_char(cell, prev_color)
         IN sc[1] \o RowFrom(px, y, x + 1, maxrow, sc[2])

\* Mutant: the nominal size is the extent, the keys are not looked at.
Canvas_rows_nominal(px, w, h) ==
    [j \in 1..(h + 1) |-> RowFrom(px, j - 1, 0, w, NoColor)]

Canvas_rows(px, w, h) ==
    LET maxrow == SetMax({w} \cup {k[1] : k \in DOMAIN px})
        maxcol == SetMax({h} \cup {k[2] : k \in DOMAIN px})
    IN [j \in 1..(maxcol + 1) |-> RowFrom(px, j - 1, 0, maxrow, NoColor)]

\* ---------------------------------------------------------------- state
\* pixels, width, height, color: the fields of Canvas.
\* ctor:  the arguments of Canvas::new.
\* last:  the last method called on the pixel map and its arguments;
\* prev:  the pixel map before that call.
\* drawn: while only set (and the default colour) has been used, the points
\*        passed to set.
\* nops:  the number of calls that went to the pixel map.
VARIABLES pixels, width, height, color, ctor, last, prev, drawn, nops

vars == <<pixels, width, height, color, ctor, last, prev, drawn, nops>>

Call(op, args) == [op |-> op, args |-> args]

New(w, h) ==
    /\ pixels = EmptyMap
    /\ width = (w \div 2) % U16
    /\ height = (h \div 4) % U16
    /\ color = NoColor
    /\ ctor = <<w, h>>
    /\ last = Call("new", <<w, h>>)
    /\ prev = EmptyMap
    /\ drawn = [only |-> TRUE, pts |-> {}]
    /\ nops = 0

\* A call that goes to the pixel map.
Apply(op, args, px) ==
    /\ pixels' = px
    /\ prev' = pixels
    /\ last' = Call(op, args)
    /\ nops' = nops + 1
    /\ UNCHANGED <<width, height, color, ctor>>

NotOnlySet == drawn' = [only |-> FALSE, pts |-> {}]

Clear ==
    /\ Apply("clear", <<>>, EmptyMap)
    /\ NotOnlySet

SetColor(hex) ==
    /\ color' = SomeColor(from_hex(hex))
    /\ UNCHANGED <<pixels, width, height, ctor, last, prev, drawn, nops>>

ResetColor ==
    /\ color' = NoColor
    /\ UNCHANGED <<pixels, width, height, ctor, last, prev, drawn, nops>>

Set(x, y) ==
    /\ Apply("set", <<x, y>>, Canvas_set(pixels, color, x, y))
    /\ drawn' = IF drawn.only
                THEN [only |-> TRUE, pts |-> drawn.pts \cup {<<x, y>>}]
                ELSE drawn

SetChar(x, y, c) ==
    /\ Apply("set_char", <<x, y, c>>, Canvas_set_char(pixels, color, x, y, c))
    /\ NotOnlySet

UnsetChar(x, y) ==
    /\ Apply("unset_char", <<x, y>>, Canvas_unset_char(pixels, x, y))
    /\ NotOnlySet

Text(x, y, max_width, s) ==
    /\ Apply("text", <<x, y, max_width>> \o s,
             Canvas_text(pixels, color, x, y, max_width, s))
    /\ NotOnlySet

Unset(x, y) ==
    /\ Apply("unset", <<x, y>>, Canvas_unset(pixels, x, y))
    /\ NotOnlySet

Toggle(x, y) ==
    /\ Apply("toggle", <<x, y>>, Canvas_toggle(pixels, x, y))
    /\ NotOnlySet

DrawLine(x1, y1, x2, y2) ==
    /\ Apply("line", <<x1, y1, x2, y2>>, Canvas_line(pixels, color, x1, y1, x2, y2))
    /\ NotOnlySet

\* ------------------------------------------------- Spec: the point methods
\* Every method on the window, without a default colour.
Xs == 0..MaxX
Ys == 0..MaxY
\* set_char and unset_char ignore the offset inside the cell: one point per
\* cell of the window, not its top-left one.
CharXs == {x \in Xs : x % 2 = 1 \/ x = MaxX}
CharYs == {y \in Ys : y % 4 = 2 \/ y = MaxY}
Sizes == {<<0, 0>>, <<4, 9>>}
Chars == {65, 66}
More == nops < MaxOps

Init == \E s \in Sizes : New(s[1], s[2])

Next ==
    \/ More /\ Clear
    \/ \E x \in Xs, y \in Ys : More /\ Set(x, y)
    \/ \E x \in Xs, y \in Ys : More /\ Unset(x, y)
    \/ \E x \in Xs, y \in Ys : More /\ Toggle(x, y)
    \/ \E x \in CharXs, y \in CharYs, c \in Chars : More /\ SetChar(x, y, c)
    \/ \E x \in CharXs, y \in CharYs : More /\ UnsetChar(x, y)
    \/ \E p \in {0, MaxX}, q \in {0, MaxY} : More /\ DrawLine(p, q, MaxX - p, MaxY - q)
    \/ \E m \in {0, 2} : More /\ Text(0, 0, m, <<65, 66>>)

Spec == Init /\ [][Next]_vars

\* ------------------------------------- SpecColor: the methods under colours
ColorXs == 0..MaxColorX
Palette == {16711680, 255}

NextColor ==
    \/ \E hex \in Palette : SetColor(hex)
    \/ ResetColor
    \/ More /\ Clear
    \/ \E x \in ColorXs : More /\ Set(x, 0)
    \/ \E x \in ColorXs : More /\ Unset(x, 0)
    \/ \E x \in ColorXs : More /\ Toggle(x, 0)
    \/ \E x \in {x \in ColorXs : x % 2 = 0} : More /\ SetChar(x, 0, 65)
    \/ \E x \in {x \in ColorXs : x % 2 = 0} : More /\ UnsetChar(x, 0)
    \/ More /\ DrawLine(0, 0, MaxColorX, 0)

SpecColor == Init /\ [][NextColor]_vars

\* --------------------------------------- SpecDoc: the crate's doc example
DocSizes == {<<10, 10>>, <<0, 0>>}
DocPoints == {<<5, 4>>, <<2, 2>>, <<8, 8>>, <<11, 13>>}

InitDoc == \E s \in DocSizes : New(s[1], s[2])

NextDoc ==
    \/ More /\ Clear
    \/ \E p \in DocPoints : More /\ Set(p[1], p[2])
    \/ \E p \in DocPoints : More /\ Unset(p[1], p[2])
    \/ \E p \in DocPoints : More /\ Toggle(p[1], p[2])
    \/ \E p \in DocPoints : More /\ SetChar(p[1], p[2], 65)
    \/ \E p \in DocPoints : More /\ UnsetChar(p[1], p[2])
    \/ \E p \in DocPoints, q \in DocPoints : More /\ DrawLine(p[1], p[2], q[1], q[2])

SpecDoc == InitDoc /\ [][NextDoc]_vars

\* ------------------------------- SpecLine: one line, after at most one set
LineXs == 0..MaxLine

InitLine == New(0, 0)

NextLine ==
    \/ \E x \in LineXs, y \in LineXs : nops = 0 /\ Set(x, y)
    \/ \E x1 \in LineXs, y1 \in LineXs, x2 \in LineXs, y2 \in LineXs :
          last.op # "line" /\ DrawLine(x1, y1, x2, y2)

SpecLine == InitLine /\ [][NextLine]_vars

\* ------------------------------- SpecText: one text, after at most one set
Strings == UNION {[1..n -> Chars] : n \in 0..MaxTextLen}

NextText ==
    \/ \E x \in {1, 4} : nops = 0 /\ Set(x, 0)
    \/ \E x \in 0..MaxTextX, y \in {0, 5}, m \in 0..MaxTextWidth, s \in Strings :
          last.op # "text" /\ Text(x, y, m, s)

SpecText == InitLine /\ [][NextText]_vars

\* ------------------ SpecWide: coordinates whose cell index passes 2^16 - 1
WideXs == {0, 1, 131072, 131073}
WideYs == {0, 262147}

NextWide ==
    \/ \E x \in WideXs, y \in WideYs : More /\ Set(x, y)
    \/ \E x \in WideXs, y \in WideYs : More /\ Unset(x, y)
    \/ \E x \in WideXs, y \in WideYs : More /\ Toggle(x, y)
    \/ \E x \in WideXs, y \in WideYs : More /\ SetChar(x, y, 65)

SpecWide == InitLine /\ [][NextWide]_vars

\* ======================================================================
\* Properties
\* ======================================================================
\* Points probed by the properties: every sub-pixel of every cell of the window.
ProbeXs == 0..(2 * (MaxX \div 2) + 1)
ProbeYs == 0..(4 * (MaxY \div 4) + 3)
\* The eight fine-grained points of cell k.
CellPoints(k) == {<<2 * k[1] + a, 4 * k[2] + b>> : a \in 0..1, b \in 0..3}
\* The character a cell shows: a space, its character, or the Braille
\* pattern U+2800 + bits.
Glyph(p) ==
    IF p.content.tag = "Empty" THEN 32
    ELSE IF p.content.tag = "Char" THEN p.content.d
    ELSE 10240 + p.content.d
\* The code points of the characters of a rendered row, escapes left out.
RowChars(row) ==
    LET cs == SelectSeq(row, LAMBDA tok : tok.t = "chr")
    IN [i \in 1..Len(cs) |-> cs[i].v[1]]
\* The largest cell index present in the map, or the nominal one.
ExtentX(px, w) == SetMax({w} \cup {k[1] : k \in DOMAIN px})
ExtentY(px, h) == SetMax({h} \cup {k[2] : k \in DOMAIN px})

\* ---------------------------------------------------------------- C1
\* C1: on a canvas that started empty and was modified only by set calls,
\* get(x, y) is true exactly for the points passed to set: true for each of
\* them and false for every other point, the other sub-pixels of a cell that
\* holds dots included.
C1_GetIsExactlyTheSetPoints ==
    drawn.only =>
        \A x \in ProbeXs, y \in ProbeYs :
            Canvas_get(pixels, x, y) <=> (<<x, y>> \in drawn.pts)

\* Two points of cell (0, 0) were set; its other six sub-pixels read false.
C1_Witness ==
    /\ drawn.only
    /\ drawn.pts = {<<0, 0>>, <<1, 3>>}
    /\ Canvas_get(pixels, 0, 0) /\ Canvas_get(pixels, 1, 3)
    /\ \A q \in CellPoints(<<0, 0>>) \ drawn.pts : ~Canvas_get(pixels, q[1], q[2])

\* ---------------------------------------------------------------- C2
\* C2: in every reachable canvas state (owning cell absent, empty, holding
\* dots or holding a character) unset(x, y) followed by get(x, y) gives false,
\* and toggle(x, y) applied twice leaves get(x, y) at its value before the
\* first toggle; the same for the unset and toggle calls the behaviour made.
C2_UnsetClearsToggleTwiceRestores ==
    /\ \A x \in ProbeXs, y \in ProbeYs :
          /\ ~Canvas_get(Canvas_unset(pixels, x, y), x, y)
          /\ Canvas_get(Canvas_toggle(Canvas_toggle(pixels, x, y), x, y), x, y)
                = Canvas_get(pixels, x, y)
    /\ last.op = "unset" => ~Canvas_get(pixels, last.args[1], last.args[2])
    /\ last.op = "toggle" =>
          Canvas_get(Canvas_toggle(pixels, last.args[1], last.args[2]),
                     last.args[1], last.args[2])
             = Canvas_get(prev, last.args[1], last.args[2])

\* toggle(1, 2) cleared a dot that was set, beside another dot of the cell,
\* and a second toggle sets it again.
C2_Witness ==
    /\ last = Call("toggle", <<1, 2>>)
    /\ Canvas_get(prev, 1, 2)
    /\ ~Canvas_get(pixels, 1, 2)
    /\ Canvas_get(Canvas_toggle(pixels, 1, 2), 1, 2)
    /\ \E q \in CellPoints(<<0, 0>>) : q # <<1, 2>> /\ Canvas_get(pixels, q[1], q[2])

\* ---------------------------------------------------------------- C3
\* C3: after set_char(x, y, c) in any canvas state get is false for every
\* sub-pixel of the owning cell, also where dots were set before; a following
\* unset_char(x, y) makes that cell render as a space and changes neither the
\* content nor the colours of any other cell.
C3_SetCharHidesDotsUnsetCharFrame ==
    /\ \A x \in ProbeXs, y \in {0, 5}, c \in Chars :
          LET k == Key(x, y)
              p1 == Canvas_set_char(pixels, color, x, y, c)
              p2 == Canvas_unset_char(p1, x, y)
              rows2 == Canvas_rows(p2, width, height)
          IN /\ \A q \in CellPoints(k) : ~Canvas_get(p1, q[1], q[2])
             /\ RowChars(rows2[k[2] + 1])[k[1] + 1] = 32
             /\ DOMAIN p2 \ {k} = DOMAIN pixels \ {k}
             /\ \A j \in DOMAIN pixels \ {k} : p2[j] = pixels[j]
    /\ last.op = "set_char" =>
          \A q \in CellPoints(Key(last.args[1], last.args[2])) :
              ~Canvas_get(pixels, q[1], q[2])

\* set_char replaced the dots of cell (0, 0), set under a colour; the
\* neighbouring cell keeps its dot and its colour.
C3_Witness ==
    /\ last.op = "set_char"
    /\ Key(last.args[1], last.args[2]) = <<0, 0>>
    /\ \E q \in CellPoints(<<0, 0>>) : Canvas_get(prev, q[1], q[2])
    /\ \A q \in CellPoints(<<0, 0>>) : ~Canvas_get(pixels, q[1], q[2])
    /\ <<1, 0>> \in DOMAIN pixels
    /\ Canvas_get(pixels, 2, 0)
    /\ pixels[<<1, 0>>].colors.some
    /\ pixels[<<1, 0>>] = prev[<<1, 0>>]

\* ---------------------------------------------------------------- C4
\* C4: for a canvas made by new(w, h) and modified by any sequence of
\* operations, rows() returns exactly max(h/4, largest cell-y in the map) + 1
\* rows of exactly max(w/2, largest cell-x in the map) + 1 cell characters
\* each; new(10, 10), set(5, 4), line(2, 2, 8, 8) gives 3 rows of 6 cells
\* whose only non-blank glyphs are U+2884 at (1, 0), U+2819 at (2, 1),
\* U+2884 at (3, 1) and U+2801 at (4, 2).
DocExample ==
    /\ ctor = <<10, 10>>
    /\ nops = 2
    /\ prev = Canvas_set(EmptyMap, NoColor, 5, 4)
    /\ last = Call("line", <<2, 2, 8, 8>>)

C4_RowsCoverEveryTouchedCell ==
    LET rows == Canvas_rows(pixels, width, height)
        nrows == Max(ctor[2] \div 4, ExtentY(pixels, 0)) + 1
        ncols == Max(ctor[1] \div 2, ExtentX(pixels, 0)) + 1
    IN /\ Len(rows) = nrows
       /\ \A j \in 1..Len(rows) : Len(RowChars(rows[j])) = ncols
       /\ \A k \in DOMAIN pixels :
             RowChars(rows[k[2] + 1])[k[1] + 1] = Glyph(pixels[k])
       /\ DocExample =>
             /\ Len(rows) = 3
             /\ RowChars(rows[1]) = <<32, 10372, 32, 32, 32, 32>>
             /\ RowChars(rows[2]) = <<32, 32, 10265, 10372, 32, 32>>
             /\ RowChars(rows[3]) = <<32, 32, 32, 32, 10241, 32>>

\* The doc example was run, and its frame has three rows.
C4_Witness ==
    /\ DocExample
    /\ Len(Canvas_rows(pixels, width, height)) = 3
    /\ RowChars(Canvas_rows(pixels, width, height)[2]) = <<32, 32, 10265, 10372, 32, 32>>

\* ---------------------------------------------------------------- C5
\* The colours accumulated on cell k of px.
ColorList(px, k) ==
    IF k \in DOMAIN px /\ px[k].colors.some THEN px[k].colors.v ELSE <<>>

RECURSIVE Total(_, _)
Total(cs, ch) == IF cs = <<>> THEN 0 ELSE Head(cs)[ch] + Total(Tail(cs), ch)

\* col is the per-channel truncating mean of the colours cs, absent iff
\* there are none: channel q is the byte with q * n <= total < (q + 1) * n.
IsMeanOf(col, cs) ==
    IF cs = <<>> THEN col = NoColor
    ELSE /\ col.some
         /\ \A ch \in 1..3 :
               /\ col.v[ch] \in 0..255
               /\ col.v[ch] * Len(cs) <= Total(cs, ch)
               /\ Total(cs, ch) < (col.v[ch] + 1) * Len(cs)

\* C5: a cell's effective colour is the per-channel truncating mean of the
\* colours accumulated on it, absent iff there are none: a set under an
\* active default colour appends that colour once and a set without one
\* appends nothing, set_char replaces the list by the default colour or by
\* nothing, unset_char on a character cell empties it, unset and toggle leave
\* it unchanged.  One set under 0xFF0000 and one under 0x0000FF give 0x7F007F.
C5_EffectiveColourIsWeightedMean ==
    /\ \A k \in DOMAIN pixels :
          /\ IsMeanOf(Pixel_color(pixels[k]), ColorList(pixels, k))
          /\ ColorList(pixels, k) = <<from_hex(16711680), from_hex(255)>> =>
                Pixel_color(pixels[k]) = SomeColor(from_hex(8323199))
    /\ \A x \in ProbeXs, y \in {0, 5} :
          LET k == Key(x, y)
              old == ColorList(pixels, k)
              afterSet == Canvas_set(pixels, color, x, y)
              afterChar == Canvas_set_char(pixels, color, x, y, 65)
          IN /\ ColorList(afterSet, k)
                   = IF color.some THEN Append(old, color.v) ELSE old
             /\ IsMeanOf(Pixel_color(afterSet[k]), ColorList(afterSet, k))
             /\ ColorList(afterChar, k)
                   = IF color.some THEN <<color.v>> ELSE <<>>
             /\ IsMeanOf(Pixel_color(afterChar[k]), ColorList(afterChar, k))
             /\ ColorList(Canvas_unset_char(afterChar, x, y), k) = <<>>
             /\ ColorList(Canvas_unset(pixels, x, y), k) = old
             /\ ColorList(Canvas_toggle(pixels, x, y), k) = old

\* A cell took one dot under 0xFF0000 and one under 0x0000FF.
C5_Witness ==
    /\ last.op = "set"
    /\ color = SomeColor(<<0, 0, 255>>)
    /\ ColorList(prev, <<0, 0>>) = <<<<255, 0, 0>>>>
    /\ ColorList(pixels, <<0, 0>>) = <<<<255, 0, 0>>, <<0, 0, 255>>>>
    /\ Pixel_color(pixels[<<0, 0>>]) = SomeColor(<<127, 0, 127>>)

\* ---------------------------------------------------------------- C6
\* What a terminal shows for a row read from its default colour: each
\* character with the colour in force when it is written.
RECURSIVE Shown(_, _, _)
Shown(row, i, cur) ==
    IF i > Len(row) THEN <<>>
    ELSE IF row[i].t = "open" THEN Shown(row, i + 1, SomeColor(row[i].v))
    ELSE IF row[i].t = "end" THEN Shown(row, i + 1, NoColor)
    ELSE <<<<row[i].v[1], cur>>>> \o Shown(row, i + 1, cur)

\* The colour in force after the row.
RECURSIVE ColourAfter(_, _, _)
ColourAfter(row, i, cur) ==
    IF i > Len(row) THEN cur
    ELSE IF row[i].t = "open" THEN ColourAfter(row, i + 1, SomeColor(row[i].v))
    ELSE IF row[i].t = "end" THEN ColourAfter(row, i + 1, NoColor)
    ELSE ColourAfter(row, i + 1, cur)

Count(row, t) == Len(SelectSeq(row, LAMBDA tok : tok.t = t))

\* C6: in every row of rows(), read from the terminal's default colour, a
\* colour-open sequence is emitted only at a cell whose effective colour is
\* present and differs from the previous cell's, a reset before a cell's
\* character when the previous cell had a colour and this cell's differs or
\* is absent, so each character is shown in exactly its own cell's effective
\* colour; the row ends with one reset iff its last cell has a colour, and no
\* colour carries over into the next row.
C6_ColourRunsPerRow ==
    LET rows == Canvas_rows(pixels, width, height)
        maxx == ExtentX(pixels, width)
    IN \A j \in 1..Len(rows) :
          LET row == rows[j]
              cell(x) == OrDefault(pixels, <<x, j - 1>>)
              col(x) == Pixel_color(cell(x))
              before(x) == IF x = 0 THEN NoColor ELSE col(x - 1)
          IN /\ Shown(row, 1, NoColor)
                   = [i \in 1..(maxx + 1) |-> <<Glyph(cell(i - 1)), col(i - 1)>>]
             /\ Count(row, "open")
                   = Cardinality({x \in 0..maxx : col(x).some /\ col(x) # before(x)})
             /\ Count(row, "end")
                   = Cardinality({x \in 0..maxx : before(x).some /\ col(x) # before(x)})
                       + (IF col(maxx).some THEN 1 ELSE 0)
             /\ (row[Len(row)].t = "end") <=> col(maxx).some
             /\ \A i \in 1..Len(row) : row[i].t = "open" => row[i + 1].t = "chr"
             /\ ColourAfter(row, 1, NoColor) = NoColor

\* Two adjacent red cells share one open sequence, and the reset comes before
\* the colourless third cell.
C6_Witness ==
    /\ last.op = "set"
    /\ Canvas_rows(pixels, width, height)[1]
          = <<[t |-> "open", v |-> <<255, 0, 0>>],
              [t |-> "chr", v |-> <<10241>>],
              [t |-> "chr", v |-> <<10241>>],
              [t |-> "end", v |-> <<>>],
              [t |-> "chr", v |-> <<32>>]>>

\* ---------------------------------------------------------------- C7
Sign(a, b) == IF a < b THEN 1 ELSE IF a > b THEN -1 ELSE 0
Abs(d) == IF d < 0 THEN -d ELSE d

\* The points the claim names, i = 0..steps, and the single point when the
\* endpoints coincide.
ClaimedLine(x1, y1, x2, y2) ==
    LET dx == Abs(x2 - x1)
        dy == Abs(y2 - y1)
        steps == Max(dx, dy)
    IN [j \in 1..(steps + 1) |->
          IF steps = 0 THEN <<x1, y1>>
          ELSE <<x1 + (((j - 1) * dx) \div steps) * Sign(x1, x2),
                 y1 + (((j - 1) * dy) \div steps) * Sign(y1, y2)>>]

\* C7: line(x1, y1, x2, y2) calls set on exactly the points
\* (x1 + (i*dx/steps)*sign(x2-x1), y1 + (i*dy/steps)*sign(y2-y1)), i = 0..steps,
\* dx = |x2-x1|, dy = |y2-y1|, steps = max(dx, dy), truncating division:
\* afterwards get is true at both endpoints and at every such point, no other
\* point becomes set, and with coinciding endpoints set is called exactly
\* once, at that point.
C7_LineSetsExactlyTheInterpolatedPoints ==
    last.op = "line" =>
        LET x1 == last.args[1]
            y1 == last.args[2]
            x2 == last.args[3]
            y2 == last.args[4]
            claimed == ClaimedLine(x1, y1, x2, y2)
            on == {claimed[j] : j \in 1..Len(claimed)}
        IN /\ LinePoints(x1, y1, x2, y2) = claimed
           /\ (x1 = x2 /\ y1 = y2) => LinePoints(x1, y1, x2, y2) = <<<<x1, y1>>>>
           /\ Canvas_get(pixels, x1, y1) /\ Canvas_get(pixels, x2, y2)
           /\ \A x \in 0..(MaxLine + 2), y \in 0..(MaxLine + 4) :
                 Canvas_get(pixels, x, y)
                    <=> (<<x, y>> \in on \/ Canvas_get(prev, x, y))

\* line(0, 0, 3, 2) on a canvas that held the dot (0, 3).
C7_Witness ==
    /\ last = Call("line", <<0, 0, 3, 2>>)
    /\ Canvas_get(prev, 0, 3) /\ Canvas_get(pixels, 0, 3)
    /\ Canvas_get(pixels, 0, 0) /\ Canvas_get(pixels, 1, 0)
    /\ Canvas_get(pixels, 2, 1) /\ Canvas_get(pixels, 3, 2)
    /\ ~Canvas_get(pixels, 1, 1) /\ ~Canvas_get(pixels, 2, 0)

\* ---------------------------------------------------------------- C8
CharCells(px) == {k \in DOMAIN px : px[k].content.tag = "Char"}

C10_EveryCallAddressesItsOwnCell ==
    last.op \in {"set", "set_char"} =>
        LET x == last.args[1]
            y == last.args[2]
        IN /\ <<x \div 2, y \div 4>> \in DOMAIN pixels
           /\ \A a \in WideXs, b \in WideYs :
                 <<a \div 2, b \div 4>> # <<x \div 2, y \div 4>> =>
                     Canvas_get(pixels, a, b) = Canvas_get(prev, a, b)

====
